---- MODULE Spec2Model ----
(***************************************************************************)
(* A model of the retrieval engine of OpStream (backend/rag/engine.py) and *)
(* of the service that drives it (backend/main.py): startup, and the       *)
(* endpoints health, issues, repos, index-repo, analyze and delete; with   *)
(* the usage tracker (backend/rag/tracker.py) and the analyzer's           *)
(* difficulty estimate (backend/rag/analyzer.py).                          *)
(*                                                                         *)
(* The vector store (Qdrant) is modelled by what the engine asks of it:    *)
(* an insertion-ordered sequence of points, equality filters over payload  *)
(* keys, cosine similarity ranking with a limit, deletion by filter.       *)
(* Vectors are unit vectors of the plane at multiples of 30 degrees, so    *)
(* that cosine similarity is exact: scores are in hundredths.              *)
(* Python's None and "" are both falsy in the engine's tests               *)
(* (`if repo_name:`), and are both written "" here.                        *)
(***************************************************************************)
EXTENDS Integers, Sequences, FiniteSets, TLC

VARIABLES
    store,    \* the collection "repo_docs": points in insertion order
    nextId,   \* the next fresh point id (uuid4 never repeats)
    last,     \* the engine call whose response the caller holds: arguments, outcome
    pc,       \* per request of the index-repo endpoint: where it stands
    req,      \* per request: repo_name, documents fetched, points built, status
    lastUp,   \* the request whose upsert completed most recently
    app,      \* the service: startup or serving, and the components constructed
    tracker   \* UsageTracker: the collection "user_activity", and the clock

vars == <<store, nextId, last, pc, req, lastUp, app, tracker>>

----------------------------------------------------------------------------
(* Bounds of the model *)

MaxIds == 3      \* point ids handed out in one run
MaxBatch == 2    \* documents in one index_documents call
MaxTicks == 3    \* steps of the clock in one run

(* Program constants *)

HydeMinLen == 20     \* search: len(query) > 20
ScrollLimit == 1000  \* get_indexed_repos: client.scroll(limit=1000)
DayLimit == 86400    \* can_contribute: 24 hours in seconds
ParentScore == 50    \* search_with_context: score = 0.5, in hundredths

Reserved == {"content", "doc_type", "repo_name"}

----------------------------------------------------------------------------
(* Small helpers for Python dicts, modelled as functions on string keys *)

EmptyDict == [k \in {} |-> ""]

Get(d, k, default) == IF k \in DOMAIN d THEN d[k] ELSE default

\* {**a, **b}: the keys of b override those of a
Merge(a, b) ==
    [k \in (DOMAIN a) \cup (DOMAIN b) |-> IF k \in DOMAIN b THEN b[k] ELSE a[k]]

Without(d, keys) == [k \in (DOMAIN d) \ keys |-> d[k]]

Min(a, b) == IF a <= b THEN a ELSE b

----------------------------------------------------------------------------
(* The embedder: text -> unit vector, given by its angle in steps of 30    *)
(* degrees. Deterministic for a fixed model.                               *)

Cos100 == <<100, 87, 50, 0, -50, -87, -100, -87, -50, 0, 50, 87>>

Cosine(v, w) == Cos100[((v - w + 12) % 12) + 1]

embed_text(text) ==
    CASE text = "Install via npm install"              -> 0
      [] text = "how do I install this"                -> 1
      [] text = "install"                              -> 0
      [] text = "how do I install it?"                 -> 0
      [] text = "Full readme text"                     -> 2
      [] text = "full readme overview"                 -> 2
      [] text = "Run npm install in the project root"  -> 4
      [] text = "Usage notes"                          -> 5
      [] text = "shadow"                               -> 7
      [] text = "src/ tests/ README.md"                -> 3
      [] OTHER                                         -> 9

embed_batch(texts) == [i \in 1..Len(texts) |-> embed_text(texts[i])]

----------------------------------------------------------------------------
(* Inputs *)

Repos == {"A", "B"}

DocInstall ==
    [content |-> "Install via npm install", type |-> "readme",
     metadata |-> [section_title |-> "Setup"]]
DocFull ==
    [content |-> "Full readme text", type |-> "readme_full",
     metadata |-> [section_title |-> "Full Document"]]
DocTree ==
    [content |-> "src/ tests/ README.md", type |-> "file_tree",
     metadata |-> [total_files |-> 3]]
DocForeign ==
    [content |-> "Usage notes",
     metadata |-> [repo_name |-> "B", content |-> "shadow"]]

\* what GitHubFetcher produces: metadata never uses a reserved key
FetchedDocs == {DocInstall, DocFull}
Docs == FetchedDocs \cup {DocForeign}

SeqsUpTo(S, n) == UNION {[1..k -> S] : k \in 0..n}

Batches == SeqsUpTo(Docs, MaxBatch)

\* 21 and 20 characters: either side of the HyDE threshold
Queries == {"how do I install this", "how do I install it?"}

TopKs == {1, 2}

\* what the call to the answer generator does, when it is made
GenOutcomes ==
    {[kind |-> "nokey"], [kind |-> "exception"], [kind |-> "nonok"],
     [kind |-> "malformed"],
     [kind |-> "ok", answer |-> "Run npm install in the project root"]}

NoGen == [kind |-> "unused", answer |-> ""]

\* the order in which the store returns points of equal score: the engine
\* passes the store's list on as it comes
TieRules == {"insertion", "reverse"}

\* which dependency is down during a call
Deps == {"none", "embedder", "store"}

\* the environment of one engine call
Env(gen, tie, dep) == [gen |-> gen, tie |-> tie, dep |-> dep]

----------------------------------------------------------------------------
(* RAGEngine._generate_hyde_document *)

\* the body of the try block: the POST, response.ok, the JSON path
HydeTry(query, gen) ==
    CASE gen.kind = "exception" -> [raised |-> TRUE, returned |-> FALSE, value |-> ""]
      [] gen.kind = "malformed" -> [raised |-> TRUE, returned |-> FALSE, value |-> ""]
      [] gen.kind = "nonok"     -> [raised |-> FALSE, returned |-> FALSE, value |-> ""]
      [] OTHER                  -> [raised |-> FALSE, returned |-> TRUE, value |-> gen.answer]

\* the same without the except clause
generate_hyde_document_unguarded(query, gen) ==
    IF gen.kind = "nokey"
    THEN [raised |-> FALSE, value |-> query, posts |-> 0]
    ELSE LET t == HydeTry(query, gen)
         IN  IF t.raised THEN [raised |-> TRUE, value |-> "", posts |-> 1]
             ELSE IF ~t.returned THEN [raised |-> FALSE, value |-> query, posts |-> 1]
             ELSE [raised |-> FALSE, value |-> t.value, posts |-> 1]

\* posts: the requests made to the generator (none without a key)
generate_hyde_document(query, gen) ==
    IF gen.kind = "nokey"
    THEN [raised |-> FALSE, value |-> query, posts |-> 0]
    ELSE LET t == HydeTry(query, gen)
         IN  IF t.raised \/ ~t.returned
             THEN [raised |-> FALSE, value |-> query, posts |-> 1]
             ELSE [raised |-> FALSE, value |-> t.value, posts |-> 1]

----------------------------------------------------------------------------
(* RAGEngine.index_documents *)

PointStruct(id, vector, payload, src) ==
    [id |-> id, vector |-> vector, payload |-> payload, src |-> src]

Payload(repo_name, doc) ==
    Merge([repo_name |-> repo_name,
           content |-> doc.content,
           doc_type |-> Get(doc, "type", "unknown")],
          Get(doc, "metadata", EmptyDict))

\* the same numbering every batch from the same id
BuildPointsFromOne(repo_name, documents, firstId) ==
    LET embeddings == embed_batch([i \in 1..Len(documents) |-> documents[i].content])
    IN  [i \in 1..Len(documents) |->
            PointStruct(i, embeddings[i],
                        Payload(repo_name, documents[i]),
                        [repo_name |-> repo_name, doc |-> documents[i]])]


\* the zip loop: one point per (document, embedding), ids fresh from firstId on;
\* src is bookkeeping of the call that made the point, not stored by Qdrant
BuildPoints(repo_name, documents, firstId) ==
    LET embeddings == embed_batch([i \in 1..Len(documents) |-> documents[i].content])
    IN  [i \in 1..Len(documents) |->
            PointStruct(firstId + i - 1, embeddings[i],
                        Payload(repo_name, documents[i]),
                        [repo_name |-> repo_name, doc |-> documents[i]])]

\* a store that keeps one point per content
UpsertDedup(st, points) ==
    LET New(p) == \A i \in 1..Len(st) : st[i].payload.content # p.payload.content
    IN  st \o SelectSeq(points, New)

\* a store that makes a point visible before its payload is complete
UpsertPayloadLater(st, points) ==
    st \o [i \in 1..Len(points) |->
              [points[i] EXCEPT !.payload = [repo_name |-> points[i].payload.repo_name]]]

\* client.upsert: a point takes the place of a stored point with its id
Upsert(st, points) ==
    LET Kept(p) == \A i \in 1..Len(points) : points[i].id # p.id
    IN  SelectSeq(st, Kept) \o points

----------------------------------------------------------------------------
(* The store's filters *)

\* a filter that passes a point meeting any one condition
MatchesAny(point, conds) ==
    \E k \in DOMAIN conds :
        k \in DOMAIN point.payload /\ point.payload[k] = conds[k]


\* Filter(must=[...]): every condition's key is present with that value
Matches(point, conds) ==
    \A k \in DOMAIN conds :
        k \in DOMAIN point.payload /\ point.payload[k] = conds[k]

DeleteByFilter(st, conds) ==
    LET Keep(p) == ~Matches(p, conds) IN SelectSeq(st, Keep)

FilterConditions(repo_name, doc_type) ==
    [k \in {x \in {"repo_name", "doc_type"} :
                \/ x = "repo_name" /\ repo_name # ""
                \/ x = "doc_type" /\ doc_type # ""}
        |-> IF k = "repo_name" THEN repo_name ELSE doc_type]

\* the same ignoring limit
ClientSearchUnlimited(st, query_vector, conds, limit, tie) ==
    LET I == {i \in 1..Len(st) : Matches(st[i], conds)}
        Score(i) == Cosine(query_vector, st[i].vector)
        Before(i, j) ==
            \/ Score(i) > Score(j)
            \/ Score(i) = Score(j) /\ (IF tie = "insertion" THEN i < j ELSE i > j)
        Rank(i) == Cardinality({j \in I : Before(j, i)}) + 1
    IN  [r \in 1..Cardinality(I) |->
            LET i == CHOOSE j \in I : Rank(j) = r
            IN  [point |-> st[i], score |-> Score(i)]]

\* a store that returns the matching points unranked
ClientSearchUnranked(st, query_vector, conds, limit, tie) ==
    LET Pass(p) == Matches(p, conds)
        m == SelectSeq(st, Pass)
    IN  [r \in 1..Min(limit, Len(m)) |->
            [point |-> m[r], score |-> Cosine(query_vector, m[r].vector)]]


\* client.search: the points passing the filter, by descending cosine
\* similarity, cut at limit. The order among equal scores is the store's
\* own (tie): the engine asks for none.
ClientSearch(st, query_vector, conds, limit, tie) ==
    LET I == {i \in 1..Len(st) : Matches(st[i], conds)}
        Score(i) == Cosine(query_vector, st[i].vector)
        Before(i, j) ==
            \/ Score(i) > Score(j)
            \/ Score(i) = Score(j) /\ (IF tie = "insertion" THEN i < j ELSE i > j)
        Rank(i) == Cardinality({j \in I : Before(j, i)}) + 1
        n == Min(limit, Cardinality(I))
    IN  [r \in 1..n |->
            LET i == CHOOSE j \in I : Rank(j) = r
            IN  [point |-> st[i], score |-> Score(i)]]

----------------------------------------------------------------------------
(* RAGEngine.search *)

\* the same leaving repo_name in the metadata
HitToResultKeepRepo(hit) ==
    [content |-> Get(hit.point.payload, "content", ""),
     type |-> Get(hit.point.payload, "doc_type", "unknown"),
     score |-> hit.score,
     metadata |-> Without(hit.point.payload, {"content", "doc_type"})]

HitToResult(hit) ==
    [content |-> Get(hit.point.payload, "content", ""),
     type |-> Get(hit.point.payload, "doc_type", "unknown"),
     score |-> hit.score,
     metadata |-> Without(hit.point.payload, Reserved)]

\* what a call that raised leaves: no result, and the calls it had made
Raised(embedded, calls) ==
    [raised |-> TRUE, result |-> <<>>, hits |-> <<>>,
     embedded |-> embedded, calls |-> calls]

Calls(gen, embed, st) == [gen |-> gen, embed |-> embed, store |-> st]

\* the same answering a store failure with a second attempt and no results
search_quiet(st, query, repo_name, top_k, doc_type, use_hyde, env) ==
    LET h == IF use_hyde /\ Len(query) > HydeMinLen
             THEN generate_hyde_document(query, env.gen)
             ELSE [raised |-> FALSE, value |-> query, posts |-> 0]
    IN  IF h.raised THEN Raised(<<>>, Calls(h.posts, 0, 0))
        ELSE IF env.dep = "embedder" THEN Raised(<<h.value>>, Calls(h.posts, 1, 0))
        ELSE IF env.dep = "store"
        THEN [raised |-> FALSE, result |-> <<>>, hits |-> <<>>,
              embedded |-> <<h.value>>, calls |-> Calls(h.posts, 1, 2)]
        ELSE LET query_embedding == embed_text(h.value)
                 results == ClientSearch(st, query_embedding,
                                         FilterConditions(repo_name, doc_type),
                                         top_k, env.tie)
             IN  [raised |-> FALSE,
                  result |-> [i \in 1..Len(results) |-> HitToResult(results[i])],
                  hits |-> [i \in 1..Len(results) |-> results[i].point.id],
                  embedded |-> <<h.value>>,
                  calls |-> Calls(h.posts, 1, 1)]


\* the same calling the generator from the threshold length on
search_from_threshold(st, query, repo_name, top_k, doc_type, use_hyde, env) ==
    LET h == IF use_hyde /\ Len(query) >= HydeMinLen
             THEN generate_hyde_document(query, env.gen)
             ELSE [raised |-> FALSE, value |-> query, posts |-> 0]
    IN  IF h.raised THEN Raised(<<>>, Calls(h.posts, 0, 0))
        ELSE IF env.dep = "embedder" THEN Raised(<<h.value>>, Calls(h.posts, 1, 0))
        ELSE IF env.dep = "store" THEN Raised(<<h.value>>, Calls(h.posts, 1, 1))
        ELSE LET query_embedding == embed_text(h.value)
                 results == ClientSearch(st, query_embedding,
                                         FilterConditions(repo_name, doc_type),
                                         top_k, env.tie)
             IN  [raised |-> FALSE,
                  result |-> [i \in 1..Len(results) |-> HitToResult(results[i])],
                  hits |-> [i \in 1..Len(results) |-> results[i].point.id],
                  embedded |-> <<h.value>>,
                  calls |-> Calls(h.posts, 1, 1)]


\* the same searching the original query as well when HyDE applied
search_both(st, query, repo_name, top_k, doc_type, use_hyde, env) ==
    LET h == IF use_hyde /\ Len(query) > HydeMinLen
             THEN generate_hyde_document(query, env.gen)
             ELSE [raised |-> FALSE, value |-> query, posts |-> 0]
        texts == IF h.value = query THEN <<query>> ELSE <<h.value, query>>
    IN  IF h.raised THEN Raised(<<>>, Calls(h.posts, 0, 0))
        ELSE IF env.dep = "embedder" THEN Raised(<<h.value>>, Calls(h.posts, 1, 0))
        ELSE IF env.dep = "store" THEN Raised(<<h.value>>, Calls(h.posts, 1, 1))
        ELSE LET query_embedding == embed_text(h.value)
                 results == ClientSearch(st, query_embedding,
                                         FilterConditions(repo_name, doc_type),
                                         top_k, env.tie)
             IN  [raised |-> FALSE,
                  result |-> [i \in 1..Len(results) |-> HitToResult(results[i])],
                  hits |-> [i \in 1..Len(results) |-> results[i].point.id],
                  embedded |-> texts,
                  calls |-> Calls(h.posts, Len(texts), Len(texts))]


\* returns what the call returns (result), whether it raised instead, and,
\* as bookkeeping, the ids of the points behind the results (hits), the
\* texts handed to the embedder (embedded) and the number of calls made to
\* the generator, the embedder and the store (calls)
search(st, query, repo_name, top_k, doc_type, use_hyde, env) ==
    LET h == IF use_hyde /\ Len(query) > HydeMinLen
             THEN generate_hyde_document(query, env.gen)
             ELSE [raised |-> FALSE, value |-> query, posts |-> 0]
    IN  IF h.raised THEN Raised(<<>>, Calls(h.posts, 0, 0))
        ELSE IF env.dep = "embedder" THEN Raised(<<h.value>>, Calls(h.posts, 1, 0))
        ELSE IF env.dep = "store" THEN Raised(<<h.value>>, Calls(h.posts, 1, 1))
        ELSE LET query_embedding == embed_text(h.value)
                 results == ClientSearch(st, query_embedding,
                                         FilterConditions(repo_name, doc_type),
                                         top_k, env.tie)
             IN  [raised |-> FALSE,
                  result |-> [i \in 1..Len(results) |-> HitToResult(results[i])],
                  hits |-> [i \in 1..Len(results) |-> results[i].point.id],
                  embedded |-> <<h.value>>,
                  calls |-> Calls(h.posts, 1, 1)]

(* RAGEngine.search_with_context *)

\* the calls of two searches made one after the other
Both(a, b) ==
    [embedded |-> a.embedded \o b.embedded,
     calls |-> [k \in DOMAIN a.calls |-> a.calls[k] + b.calls[k]]]

\* the same putting the parent first
search_with_context_parent_first(st, query, repo_name, top_k, env) ==
    LET section == search(st, query, repo_name, top_k, "", TRUE, env)
        has_readme_section ==
            \E i \in 1..Len(section.result) : section.result[i].type = "readme"
        full_readme == search(st, "full readme overview", repo_name, 1,
                              "readme_full", FALSE, env)
        both == Both(section, full_readme)
    IN  IF section.raised \/ ~has_readme_section THEN section
        ELSE IF full_readme.raised THEN Raised(both.embedded, both.calls)
        ELSE [raised |-> FALSE,
              result |-> IF full_readme.result = <<>> THEN section.result
                         ELSE <<Merge(full_readme.result[1],
                                      [score |-> ParentScore, is_parent |-> TRUE])>>
                              \o section.result,
              hits |-> full_readme.hits \o section.hits,
              embedded |-> both.embedded,
              calls |-> both.calls]

\* the same fetching the parent whatever the first search returned
search_with_context_always(st, query, repo_name, top_k, env) ==
    LET section == search(st, query, repo_name, top_k, "", TRUE, env)
        full_readme == search(st, "full readme overview", repo_name, 1,
                              "readme_full", FALSE, env)
        both == Both(section, full_readme)
    IN  IF section.raised THEN section
        ELSE IF full_readme.raised THEN Raised(both.embedded, both.calls)
        ELSE [raised |-> FALSE,
              result |-> IF full_readme.result = <<>> THEN section.result
                         ELSE Append(section.result,
                                     Merge(full_readme.result[1],
                                           [score |-> ParentScore,
                                            is_parent |-> TRUE])),
              hits |-> section.hits \o full_readme.hits,
              embedded |-> both.embedded,
              calls |-> both.calls]


search_with_context(st, query, repo_name, top_k, env) ==
    LET section == search(st, query, repo_name, top_k, "", TRUE, env)
        has_readme_section ==
            \E i \in 1..Len(section.result) : section.result[i].type = "readme"
        full_readme == search(st, "full readme overview", repo_name, 1,
                              "readme_full", FALSE, env)
        both == Both(section, full_readme)
    IN  IF section.raised \/ ~has_readme_section THEN section
        ELSE IF full_readme.raised THEN Raised(both.embedded, both.calls)
        ELSE [raised |-> FALSE,
              result |-> IF full_readme.result = <<>> THEN section.result
                         ELSE Append(section.result,
                                     Merge(full_readme.result[1],
                                           [score |-> ParentScore,
                                            is_parent |-> TRUE])),
              hits |-> section.hits \o full_readme.hits,
              embedded |-> both.embedded,
              calls |-> both.calls]

(* RAGEngine.search_for_files *)

\* the same running both searches whatever the first returned
search_for_files_parallel(st, query, repo_name, env) ==
    LET results == search(st, query, repo_name, 1, "file_tree", FALSE, env)
        fallback == search(st, "files directories " \o query, repo_name, 2, "",
                           FALSE, env)
        both == Both(results, fallback)
    IN  IF results.raised THEN results
        ELSE IF fallback.raised THEN Raised(both.embedded, both.calls)
        ELSE [raised |-> FALSE,
              result |-> results.result \o fallback.result,
              hits |-> results.hits \o fallback.hits,
              embedded |-> both.embedded,
              calls |-> both.calls]

search_for_files(st, query, repo_name, env) ==
    LET results == search(st, query, repo_name, 1, "file_tree", FALSE, env)
        fallback == search(st, "files directories " \o query, repo_name, 2, "",
                           FALSE, env)
        both == Both(results, fallback)
    IN  IF results.raised \/ results.result # <<>> THEN results
        ELSE IF fallback.raised THEN Raised(both.embedded, both.calls)
        ELSE [fallback EXCEPT !.embedded = both.embedded, !.calls = both.calls]


(* RAGEngine.delete_repo *)

\* the same removing only the first matching point
delete_repo_first(st, repo_name) ==
    LET M == {i \in 1..Len(st) : Matches(st[i], [repo_name |-> repo_name])}
    IN  IF M = {} THEN st
        ELSE LET f == CHOOSE i \in M : \A j \in M : i <= j
             IN  SubSeq(st, 1, f - 1) \o SubSeq(st, f + 1, Len(st))

delete_repo(st, repo_name) == DeleteByFilter(st, [repo_name |-> repo_name])

(* RAGEngine.get_indexed_repos *)

\* client.scroll(limit): the first page of points, in the store's order
Scroll(st, limit) == SubSeq(st, 1, Min(limit, Len(st)))

get_indexed_repos(st) ==
    LET results == Scroll(st, ScrollLimit)
    IN  {results[i].payload.repo_name :
            i \in {j \in 1..Len(results) : "repo_name" \in DOMAIN results[j].payload}}

----------------------------------------------------------------------------
(* The engine's calls as steps of a synchronous caller: a call is made,   *)
(* its response is in `last` until the caller takes it (Return), and only  *)
(* then is the next call made.                                             *)

(* UsageTracker (memory/tracker.py) *)

Users == {1, 2}

\* the same allowing a contribution from exactly 24 hours on
can_contribute_from_limit(activity, user_id, current_time) ==
    IF user_id \notin DOMAIN activity THEN TRUE
    ELSE current_time - Get(activity[user_id], "last_contribution_ts", 0) >= DayLimit

\* activity: the points of "user_activity", payload by point id
can_contribute(activity, user_id, current_time) ==
    IF user_id \notin DOMAIN activity THEN TRUE
    ELSE current_time - Get(activity[user_id], "last_contribution_ts", 0) > DayLimit

log_contribution(activity, user_id, current_time) ==
    [u \in (DOMAIN activity) \cup {user_id} |->
        IF u = user_id THEN [last_contribution_ts |-> current_time]
        ELSE activity[u]]

\* logged: per user, when log_contribution last ran (-1: never)
NoActivity ==
    [activity |-> [u \in {} |-> EmptyDict], now |-> 0, ticks |-> 0,
     logged |-> [u \in Users |-> -1]]

----------------------------------------------------------------------------
Procs == {"r1", "r2"}

Idle == [status |-> 0]

NoCall == [op |-> "none"]

\* lifespan constructs the components in this order
Components == <<"gh_engine", "rag_engine", "fetcher", "analyzer">>

\* the global is not None
Has(a, c) == \E i \in 1..a.built : Components[i] = c

Ready == [phase |-> "serving", built |-> Len(Components)]

Init ==
    /\ store = <<>>
    /\ nextId = 1
    /\ last = NoCall
    /\ pc = [p \in Procs |-> "idle"]
    /\ req = [p \in Procs |-> Idle]
    /\ lastUp = "none"
    /\ app = Ready
    /\ tracker = NoActivity

(* RAGEngine.index_documents *)
IndexDocuments(repo_name, documents, dep) ==
    /\ last = NoCall
    /\ nextId + Len(documents) - 1 <= MaxIds
    /\ LET call == [op |-> "index_documents", repo_name |-> repo_name,
                    documents |-> documents, dep |-> dep]
       IN  IF documents = <<>>
           THEN /\ UNCHANGED <<store, nextId>>
                /\ last' = Merge(call, [raised |-> FALSE, ret |-> 0,
                                        calls |-> Calls(0, 0, 0)])
           ELSE IF dep = "embedder"
           THEN /\ UNCHANGED <<store, nextId>>
                /\ last' = Merge(call, [raised |-> TRUE, calls |-> Calls(0, 1, 0)])
           ELSE IF dep = "store"
           THEN /\ UNCHANGED <<store, nextId>>
                /\ last' = Merge(call, [raised |-> TRUE, calls |-> Calls(0, 1, 1)])
           ELSE LET points == BuildPoints(repo_name, documents, nextId)
                IN  /\ store' = Upsert(store, points)
                    /\ nextId' = nextId + Len(points)
                    /\ last' = Merge(call, [raised |-> FALSE, ret |-> Len(points),
                                            calls |-> Calls(0, 1, 1)])
    /\ UNCHANGED <<pc, req, lastUp, app, tracker>>

(* RAGEngine.delete_repo *)
DeleteRepo(repo_name, dep) ==
    /\ last = NoCall
    /\ LET call == [op |-> "delete_repo", repo_name |-> repo_name, dep |-> dep]
       IN  IF dep = "store"
           THEN /\ UNCHANGED store
                /\ last' = Merge(call, [raised |-> TRUE, calls |-> Calls(0, 0, 1)])
           ELSE /\ store' = delete_repo(store, repo_name)
                /\ last' = Merge(call, [raised |-> FALSE, ret |-> TRUE,
                                        removed |-> Len(store) - Len(store'),
                                        calls |-> Calls(0, 0, 1)])
    /\ UNCHANGED <<nextId, pc, req, lastUp, app, tracker>>

(* RAGEngine.get_indexed_repos *)
GetIndexedRepos(dep) ==
    /\ last = NoCall
    /\ LET call == [op |-> "get_indexed_repos", dep |-> dep]
       IN  IF dep = "store"
           THEN last' = Merge(call, [raised |-> TRUE, calls |-> Calls(0, 0, 1)])
           ELSE last' = Merge(call, [raised |-> FALSE,
                                     ret |-> get_indexed_repos(store),
                                     calls |-> Calls(0, 0, 1)])
    /\ UNCHANGED <<store, nextId, pc, req, lastUp, app, tracker>>

\* the generator's outcome matters only to a call that reaches it
GensFor(query, use_hyde) ==
    IF use_hyde /\ Len(query) > HydeMinLen THEN GenOutcomes ELSE {NoGen}

\* the store's order among equal scores is recorded where it shows
SearchCall(query, repo_name, top_k, doc_type, use_hyde, env) ==
    /\ last = NoCall
    /\ \E r \in {search(store, query, repo_name, top_k, doc_type, use_hyde, env)} :
           /\ \/ env.tie = "insertion"
              \/ r.hits # search(store, query, repo_name, top_k, doc_type, use_hyde,
                                 [env EXCEPT !.tie = "insertion"]).hits
           /\ last' = [op |-> "search", query |-> query, repo_name |-> repo_name,
                       top_k |-> top_k, doc_type |-> doc_type,
                       use_hyde |-> use_hyde, env |-> env, dep |-> env.dep,
                       raised |-> r.raised, result |-> r.result, hits |-> r.hits,
                       embedded |-> r.embedded, calls |-> r.calls]
    /\ UNCHANGED <<store, nextId, pc, req, lastUp, app, tracker>>

\* the same writing the parent's flag back to the stored document
SearchWithContextCallWriteBack(query, repo_name, top_k, env) ==
    /\ last = NoCall
    /\ \E r \in {search_with_context(store, query, repo_name, top_k, env)} :
           /\ store' = [i \in 1..Len(store) |->
                           IF \E n \in 1..Len(r.result) :
                                 /\ "is_parent" \in DOMAIN r.result[n]
                                 /\ r.hits[n] = store[i].id
                           THEN [store[i] EXCEPT !.payload =
                                     Merge(@, [is_parent |-> TRUE])]
                           ELSE store[i]]
           /\ last' = [op |-> "search_with_context", query |-> query,
                       repo_name |-> repo_name, top_k |-> top_k, env |-> env,
                       dep |-> env.dep,
                       raised |-> r.raised, result |-> r.result, hits |-> r.hits,
                       embedded |-> r.embedded, calls |-> r.calls]
    /\ UNCHANGED <<nextId, pc, req, lastUp, app, tracker>>


SearchWithContextCall(query, repo_name, top_k, env) ==
    /\ last = NoCall
    /\ \E r \in {search_with_context(store, query, repo_name, top_k, env)} :
           /\ \/ env.tie = "insertion"
              \/ r.hits # search_with_context(store, query, repo_name, top_k,
                                              [env EXCEPT !.tie = "insertion"]).hits
           /\ last' = [op |-> "search_with_context", query |-> query,
                       repo_name |-> repo_name, top_k |-> top_k, env |-> env,
                       dep |-> env.dep,
                       raised |-> r.raised, result |-> r.result, hits |-> r.hits,
                       embedded |-> r.embedded, calls |-> r.calls]
    /\ UNCHANGED <<store, nextId, pc, req, lastUp, app, tracker>>

Return ==
    /\ last # NoCall
    /\ last' = NoCall
    /\ UNCHANGED <<store, nextId, pc, req, lastUp, app, tracker>>

Next ==
    \/ Return
    \/ \E r \in Repos, docs \in Batches : IndexDocuments(r, docs, "none")
    \/ \E r \in Repos : DeleteRepo(r, "none")
    \/ GetIndexedRepos("none")
    \/ \E q \in Queries, r \in Repos \cup {""}, k \in TopKs,
          t \in {"", "readme_full"}, h \in BOOLEAN :
          \E g \in GensFor(q, h), tie \in TieRules :
              SearchCall(q, r, k, t, h, Env(g, tie, "none"))
    \/ \E q \in Queries, r \in Repos, k \in TopKs :
          \E g \in GensFor(q, TRUE), tie \in TieRules :
              SearchWithContextCall(q, r, k, Env(g, tie, "none"))

Spec == Init /\ [][Next]_vars

----------------------------------------------------------------------------
(* POST /api/index-repo (main.py, index_repository): concurrent requests.  *)
(* Each awaited call runs in a worker thread, so requests interleave       *)
(* between fetch, delete_repo, and inside index_documents between building *)
(* the points and the store's upsert.                                      *)

FetchedBatches == SeqsUpTo(FetchedDocs, MaxBatch)

RECURSIVE SumOver(_, _)
SumOver(S, f) ==
    IF S = {} THEN 0
    ELSE LET x == CHOOSE y \in S : TRUE IN f[x] + SumOver(S \ {x}, f)

\* ids that requests already under way will still draw
Pending ==
    SumOver(Procs, [p \in Procs |->
        IF pc[p] \in {"delete", "index"} THEN Len(req[p].documents) ELSE 0])

\* the same never answering 503
UnavailableNever(a, needs) == FALSE

\* `if not rag_engine or not fetcher`: a component the endpoint needs is None
Unavailable(a, needs) == \E c \in needs : ~Has(a, c)

\* the 503 check, then fetcher.fetch_all returned; no documents is answered
\* with an error
ReqFetch(p, repo_name, documents) ==
    /\ app.phase = "serving"
    /\ pc[p] = "idle"
    /\ (nextId - 1) + Pending + Len(documents) <= MaxIds
    /\ IF Unavailable(app, {"rag_engine", "fetcher"})
       THEN /\ req' = [req EXCEPT ![p] = [status |-> 503, endpoint |-> "index-repo"]]
            /\ UNCHANGED pc
       ELSE IF documents = <<>>
       THEN /\ req' = [req EXCEPT ![p] = [status |-> 500, endpoint |-> "index-repo"]]
            /\ UNCHANGED pc
       ELSE /\ req' = [req EXCEPT ![p] =
                         [repo_name |-> repo_name, documents |-> documents,
                          points |-> <<>>, status |-> 0, endpoint |-> "index-repo"]]
            /\ pc' = [pc EXCEPT ![p] = "delete"]
    /\ UNCHANGED <<store, nextId, last, lastUp, app, tracker>>

\* await asyncio.to_thread(rag_engine.delete_repo, repo_name);
\* removed is bookkeeping while the request runs: the ids this call deleted
ReqDelete(p) ==
    /\ pc[p] = "delete"
    /\ store' = delete_repo(store, req[p].repo_name)
    /\ req' = [req EXCEPT ![p] =
                  Merge(@, [removed |-> {store[i].id : i \in 1..Len(store)}
                                        \ {store'[i].id : i \in 1..Len(store')}])]
    /\ pc' = [pc EXCEPT ![p] = "index"]
    /\ UNCHANGED <<nextId, last, lastUp, app, tracker>>

\* index_documents up to the upsert: embeddings, ids, payloads
ReqBuild(p) ==
    /\ pc[p] = "index"
    /\ LET points == BuildPoints(req[p].repo_name, req[p].documents, nextId)
       IN  /\ req' = [req EXCEPT ![p].points = points]
           /\ nextId' = nextId + Len(points)
    /\ pc' = [pc EXCEPT ![p] = "upsert"]
    /\ UNCHANGED <<store, last, lastUp, app, tracker>>

\* index_documents: client.upsert(points), then the response is returned
ReqUpsert(p) ==
    /\ pc[p] = "upsert"
    /\ store' = Upsert(store, req[p].points)
    /\ lastUp' = p
    /\ req' = [req EXCEPT ![p] = Merge(Without(@, {"removed"}), [status |-> 200])]
    /\ pc' = [pc EXCEPT ![p] = "idle"]
    /\ UNCHANGED <<nextId, last, app, tracker>>

\* fetcher.fetch_all raised: a ValueError is answered 400, anything else 500
ReqFetchFails(p, status) ==
    /\ app.phase = "serving"
    /\ pc[p] = "idle"
    /\ ~Unavailable(app, {"rag_engine", "fetcher"})
    /\ req' = [req EXCEPT ![p] = [status |-> status, endpoint |-> "index-repo"]]
    /\ UNCHANGED <<store, nextId, last, pc, lastUp, app, tracker>>

\* the engine call under way raised (delete_repo, embed_batch inside
\* index_documents, or client.upsert): `except Exception` answers 500
ReqRaises(p) ==
    /\ pc[p] \in {"delete", "index", "upsert"}
    /\ req' = [req EXCEPT ![p] = Merge(@, [status |-> 500])]
    /\ pc' = [pc EXCEPT ![p] = "idle"]
    /\ UNCHANGED <<store, nextId, last, lastUp, app, tracker>>


NextReindex ==
    \/ \E p \in Procs, r \in Repos, docs \in FetchedBatches : ReqFetch(p, r, docs)
    \/ \E p \in Procs : ReqDelete(p)
    \/ \E p \in Procs : ReqBuild(p)
    \/ \E p \in Procs : ReqUpsert(p)
    \/ \E r \in Repos :
          SearchCall("install", r, 2, "", FALSE, Env(NoGen, "insertion", "none"))
    \/ Return

SpecReindex == Init /\ [][NextReindex]_vars

----------------------------------------------------------------------------
(* Startup (main.py, lifespan) and the endpoints that need the engine.     *)
(* lifespan catches whatever a constructor raises, logs it, and yields:    *)
(* the application then serves with the components built so far.           *)

InitStartup ==
    /\ store = <<>>
    /\ nextId = 1
    /\ last = NoCall
    /\ pc = [p \in Procs |-> "idle"]
    /\ req = [p \in Procs |-> Idle]
    /\ lastUp = "none"
    /\ app = [phase |-> "startup", built |-> 0]
    /\ tracker = NoActivity

\* built: the constructors that returned before one raised (all: none raised)
Lifespan(built) ==
    /\ app.phase = "startup"
    /\ app' = [phase |-> "serving", built |-> built]
    /\ UNCHANGED <<store, nextId, last, pc, req, lastUp, tracker>>

\* GET /health
Health(p) ==
    /\ app.phase = "serving"
    /\ pc[p] = "idle"
    /\ req' = [req EXCEPT ![p] =
                  [status |-> 200, endpoint |-> "health",
                   rag_ready |-> Has(app, "rag_engine")]]
    /\ UNCHANGED <<store, nextId, last, pc, lastUp, app, tracker>>

\* GET /api/repos
ListRepos(p) ==
    /\ app.phase = "serving"
    /\ pc[p] = "idle"
    /\ IF Unavailable(app, {"rag_engine"})
       THEN req' = [req EXCEPT ![p] = [status |-> 503, endpoint |-> "repos"]]
       ELSE req' = [req EXCEPT ![p] =
                       [status |-> 200, endpoint |-> "repos",
                        repos |-> get_indexed_repos(store)]]
    /\ UNCHANGED <<store, nextId, last, pc, lastUp, app, tracker>>

\* DELETE /api/repos/{repo_owner}/{repo_name}
DeleteRepository(p, repo_name) ==
    /\ app.phase = "serving"
    /\ pc[p] = "idle"
    /\ IF Unavailable(app, {"rag_engine"})
       THEN /\ req' = [req EXCEPT ![p] = [status |-> 503, endpoint |-> "delete"]]
            /\ UNCHANGED store
       ELSE /\ store' = delete_repo(store, repo_name)
            /\ req' = [req EXCEPT ![p] =
                          [status |-> 200, endpoint |-> "delete",
                           repo_name |-> repo_name]]
    /\ UNCHANGED <<nextId, last, pc, lastUp, app, tracker>>

\* one client
NextStartup ==
    \/ \E built \in 0..Len(Components) : Lifespan(built)
    \/ Health("r1")
    \/ ListRepos("r1")
    \/ \E r \in Repos : DeleteRepository("r1", r)
    \/ \E r \in Repos, docs \in FetchedBatches : ReqFetch("r1", r, docs)
    \/ ReqDelete("r1")
    \/ ReqBuild("r1")
    \/ ReqUpsert("r1")

SpecStartup == InitStartup /\ [][NextStartup]_vars

----------------------------------------------------------------------------

(* The index-repo endpoint with calls that raise: one client, so that    *)
(* nothing but the request itself touches the repository it re-indexes.  *)

NextReindexFail ==
    \/ \E r \in Repos, docs \in FetchedBatches : ReqFetch("r1", r, docs)
    \/ \E status \in {400, 500} : ReqFetchFails("r1", status)
    \/ ReqDelete("r1")
    \/ ReqBuild("r1")
    \/ ReqUpsert("r1")
    \/ ReqRaises("r1")

SpecReindexFail == Init /\ [][NextReindexFail]_vars

----------------------------------------------------------------------------

(* Readiness gating (main.py): every endpoint but /health and /api/domains *)
(* starts by checking the components it needs.                             *)

\* the component checked at the head of each endpoint
Required(endpoint) ==
    CASE endpoint = "issues"     -> {"gh_engine"}
      [] endpoint = "repos"      -> {"rag_engine"}
      [] endpoint = "delete"     -> {"rag_engine"}
      [] endpoint = "index-repo" -> {"rag_engine", "fetcher"}
      [] endpoint = "analyze"    -> {"analyzer"}
      [] OTHER                   -> {}

\* POST /api/issues: gh_engine.search_issues answers or raises
SearchIssues(p, status) ==
    /\ app.phase = "serving"
    /\ pc[p] = "idle"
    /\ IF Unavailable(app, {"gh_engine"})
       THEN req' = [req EXCEPT ![p] = [status |-> 503, endpoint |-> "issues"]]
       ELSE req' = [req EXCEPT ![p] = [status |-> status, endpoint |-> "issues"]]
    /\ UNCHANGED <<store, nextId, last, pc, lastUp, app, tracker>>

\* the same checking the engine where the endpoint checks the analyzer
AnalyzeRepositoryOnEngine(p, repo_name, question) ==
    /\ app.phase = "serving"
    /\ pc[p] = "idle"
    /\ IF Unavailable(app, {"rag_engine"})
       THEN req' = [req EXCEPT ![p] = [status |-> 503, endpoint |-> "analyze"]]
       ELSE req' = [req EXCEPT ![p] =
                       [status |-> 200, endpoint |-> "analyze",
                        repo_name |-> repo_name]]
    /\ UNCHANGED <<store, nextId, last, pc, lastUp, app, tracker>>

\* POST /api/analyze: analyzer.analyze searches with context (top_k=5) and
\* lists a source per result
AnalyzeRepository(p, repo_name, question) ==
    /\ app.phase = "serving"
    /\ pc[p] = "idle"
    /\ IF Unavailable(app, {"analyzer"})
       THEN req' = [req EXCEPT ![p] = [status |-> 503, endpoint |-> "analyze"]]
       ELSE \E r \in {search_with_context(store, question, repo_name, 5,
                                          Env(NoGen, "insertion", "none"))} :
               req' = [req EXCEPT ![p] =
                          [status |-> 200, endpoint |-> "analyze",
                           repo_name |-> repo_name,
                           sources |-> [i \in 1..Len(r.result) |->
                                           r.result[i].type]]]
    /\ UNCHANGED <<store, nextId, last, pc, lastUp, app, tracker>>

\* one client, every gate
NextGating ==
    \/ \E built \in 0..Len(Components) : Lifespan(built)
    \/ Health("r1")
    \/ \E status \in {200, 500} : SearchIssues("r1", status)
    \/ ListRepos("r1")
    \/ \E r \in Repos : DeleteRepository("r1", r)
    \/ \E r \in Repos, docs \in FetchedBatches : ReqFetch("r1", r, docs)
    \/ ReqDelete("r1")
    \/ ReqBuild("r1")
    \/ ReqUpsert("r1")
    \/ \E r \in Repos : AnalyzeRepository("r1", r, "how do I install it?")

SpecGating == InitStartup /\ [][NextGating]_vars

----------------------------------------------------------------------------


(* The engine's read operations over repositories that hold a file tree *)

FileDocs == {DocInstall, DocFull, DocTree}

FileBatches == SeqsUpTo(FileDocs, MaxBatch)

SearchForFilesCall(query, repo_name, env) ==
    /\ last = NoCall
    /\ \E r \in {search_for_files(store, query, repo_name, env)} :
           /\ \/ env.tie = "insertion"
              \/ r.hits # search_for_files(store, query, repo_name,
                                           [env EXCEPT !.tie = "insertion"]).hits
           /\ last' = [op |-> "search_for_files", query |-> query,
                       repo_name |-> repo_name, env |-> env, dep |-> env.dep,
                       raised |-> r.raised, result |-> r.result, hits |-> r.hits,
                       embedded |-> r.embedded, calls |-> r.calls]
    /\ UNCHANGED <<store, nextId, pc, req, lastUp, app, tracker>>

NextReads ==
    \/ Return
    \/ \E r \in Repos, docs \in FileBatches : IndexDocuments(r, docs, "none")
    \/ \E r \in Repos : DeleteRepo(r, "none")
    \/ GetIndexedRepos("none")
    \/ \E q \in Queries, r \in Repos, tie \in TieRules :
          SearchForFilesCall(q, r, Env(NoGen, tie, "none"))
    \/ \E q \in Queries, r \in Repos \cup {""} :
          SearchCall(q, r, 2, "", FALSE, Env(NoGen, "insertion", "none"))
    \/ \E r \in Repos :
          SearchWithContextCall("how do I install it?", r, 2,
                                Env(NoGen, "insertion", "none"))

SpecReads == Init /\ [][NextReads]_vars

----------------------------------------------------------------------------

(* The tracker's calls, and the clock (time.time()) between them *)

ClockSteps == {-1, 1, DayLimit}

CanContribute(user_id) ==
    /\ last = NoCall
    /\ last' = [op |-> "can_contribute", user_id |-> user_id, at |-> tracker.now,
                ret |-> can_contribute(tracker.activity, user_id, tracker.now)]
    /\ UNCHANGED <<store, nextId, pc, req, lastUp, app, tracker>>

LogContribution(user_id) ==
    /\ last = NoCall
    /\ tracker' = [tracker EXCEPT
                      !.activity = log_contribution(@, user_id, tracker.now),
                      !.logged[user_id] = tracker.now]
    /\ last' = [op |-> "log_contribution", user_id |-> user_id, at |-> tracker.now]
    /\ UNCHANGED <<store, nextId, pc, req, lastUp, app>>

\* the wall clock moves; it is not monotonic
Tick(d) ==
    /\ last = NoCall
    /\ tracker.ticks < MaxTicks
    /\ tracker.now + d >= 0
    /\ tracker' = [tracker EXCEPT !.now = @ + d, !.ticks = @ + 1]
    /\ UNCHANGED <<store, nextId, last, pc, req, lastUp, app>>

NextTracker ==
    \/ Return
    \/ \E u \in Users : CanContribute(u)
    \/ \E u \in Users : LogContribution(u)
    \/ \E d \in ClockSteps : Tick(d)

SpecTracker == Init /\ [][NextTracker]_vars

----------------------------------------------------------------------------

(* RepositoryAnalyzer.calculate_difficulty (rag/analyzer.py) *)

MaxLabels == 3   \* labels on one issue

\* labels as they come from GitHub; matching is by substring of the
\* lower-cased label
Labels == {"Good First Issue", "breaking change", "bug", "easy architecture"}

HasEasy(label) == label \in {"Good First Issue", "easy architecture"}

HasHard(label) == label \in {"breaking change", "easy architecture"}

TitleLens == {0, 50}

BodyLens == {0, 149, 150, 950, 951}

\* what the skill-extraction call to the language model does
SkillOutcomes ==
    {[kind |-> "exception"], [kind |-> "notjson"],
     [kind |-> "ok", skills |-> <<"python", "git">>]}

time_map ==
    <<"30 mins", "1 hour", "2 hours", "3 hours", "4 hours", "6 hours",
      "8 hours", "1-2 days", "2-3 days", "1 week+">>

Max(a, b) == IF a >= b THEN a ELSE b

RECURSIVE LabelScore(_, _)
\* the loop over labels
LabelScore(labels, base_score) ==
    IF labels = <<>> THEN base_score
    ELSE LET label == Head(labels)
             e == IF HasEasy(label) THEN base_score - 2 ELSE base_score
             h == IF HasHard(label) THEN e + 2 ELSE e
         IN  LabelScore(Tail(labels), h)

Difficulty(score, gen) ==
    [score |-> score,
     time_estimate |-> IF score \in DOMAIN time_map THEN time_map[score]
                       ELSE "Unknown",
     required_skills |-> IF gen.kind = "ok" THEN gen.skills ELSE <<>>,
     level |-> IF score <= 3 THEN "Beginner"
               ELSE IF score <= 6 THEN "Intermediate" ELSE "Advanced"]

\* the same without the clamp
calculate_difficulty_unclamped(title_len, body_len, labels, gen) ==
    LET by_labels == LabelScore(labels, 5)
        content_length == title_len + body_len
        base_score == IF content_length < 200 THEN by_labels - 1
                      ELSE IF content_length > 1000 THEN by_labels + 1
                      ELSE by_labels
    IN  Difficulty(base_score, gen)

calculate_difficulty(title_len, body_len, labels, gen) ==
    LET by_labels == LabelScore(labels, 5)
        content_length == title_len + body_len
        base_score == IF content_length < 200 THEN by_labels - 1
                      ELSE IF content_length > 1000 THEN by_labels + 1
                      ELSE by_labels
    IN  Difficulty(Max(1, Min(10, base_score)), gen)

CalculateDifficulty(title_len, body_len, labels, gen) ==
    /\ last = NoCall
    /\ last' = [op |-> "calculate_difficulty", title_len |-> title_len,
                body_len |-> body_len, labels |-> labels, gen |-> gen,
                ret |-> calculate_difficulty(title_len, body_len, labels, gen)]
    /\ UNCHANGED <<store, nextId, pc, req, lastUp, app, tracker>>

NextDifficulty ==
    \/ Return
    \/ \E t \in TitleLens, b \in BodyLens, labels \in SeqsUpTo(Labels, MaxLabels),
          g \in SkillOutcomes : CalculateDifficulty(t, b, labels, g)

SpecDifficulty == Init /\ [][NextDifficulty]_vars

----------------------------------------------------------------------------

(* The engine over a store that already holds a full scroll page: the      *)
(* state after index_documents("A", documents) with ScrollLimit sections.  *)
(* Point ids are random (uuid4), so the page the store returns first can   *)
(* be any ScrollLimit of the points; here it is the oldest ones.           *)

InitScroll ==
    /\ store = BuildPoints("A", [i \in 1..ScrollLimit |-> DocInstall],
                           1 - ScrollLimit)
    /\ nextId = 1
    /\ last = NoCall
    /\ pc = [p \in Procs |-> "idle"]
    /\ req = [p \in Procs |-> Idle]
    /\ lastUp = "none"
    /\ app = Ready
    /\ tracker = NoActivity

NextScroll ==
    \/ Return
    \/ \E r \in Repos, docs \in Batches : IndexDocuments(r, docs, "none")
    \/ \E r \in Repos : DeleteRepo(r, "none")
    \/ GetIndexedRepos("none")

SpecScroll == InitScroll /\ [][NextScroll]_vars

----------------------------------------------------------------------------
(* The engine's calls while a dependency may be down *)

NextFail ==
    \/ Return
    \/ \E r \in Repos, docs \in Batches, d \in Deps : IndexDocuments(r, docs, d)
    \/ \E r \in Repos, d \in Deps : DeleteRepo(r, d)
    \/ \E d \in Deps : GetIndexedRepos(d)
    \/ \E q \in Queries, h \in BOOLEAN, d \in Deps :
          \E g \in GensFor(q, h) :
              SearchCall(q, "A", 2, "", h, Env(g, "insertion", d))
    \/ \E q \in Queries, d \in Deps :
          \E g \in GensFor(q, TRUE) :
              SearchWithContextCall(q, "A", 2, Env(g, "insertion", d))

SpecFail == Init /\ [][NextFail]_vars

----------------------------------------------------------------------------

(* Vocabulary of the properties *)

PointOf(st, id) == st[CHOOSE i \in 1..Len(st) : st[i].id = id]

Ids(points) == {points[i].id : i \in 1..Len(points)}

StoredIdsUnder(st, repo_name) ==
    {st[i].id : i \in {j \in 1..Len(st) : st[j].payload.repo_name = repo_name}}

IsSearch == last.op = "search" /\ ~last.raised

IsContext == last.op = "search_with_context" /\ ~last.raised

FailureKinds == {"nokey", "exception", "nonok", "malformed"}

Done(p) == pc[p] = "idle" /\ req[p].status = 200

----------------------------------------------------------------------------
(* C1: a search scoped to repository A returns no document that was        *)
(* indexed under another repository name, and none whose stored repo_name  *)
(* is another name. (A is a name: the empty name is the caller leaving the *)
(* scope out.)                                                             *)
C1_NamespaceIsolation ==
    (IsSearch /\ last.repo_name # "") =>
        \A i \in 1..Len(last.hits) :
            LET pt == PointOf(store, last.hits[i])
            IN  /\ pt.src.repo_name = last.repo_name
                /\ pt.payload.repo_name = last.repo_name

(* C2: when a re-index request completes, the documents stored under its   *)
(* repository are exactly those of its batch.                              *)
C2_ReindexReplaces ==
    [][\A p \in Procs :
          (pc[p] = "upsert" /\ pc'[p] = "idle") =>
              StoredIdsUnder(store', req[p].repo_name) = Ids(req[p].points)]_vars

(* C3: after two re-index requests on the same repository have both        *)
(* completed, the repository holds exactly the batch of the request whose  *)
(* upsert completed last.                                                  *)
C3_LastUpsertWins ==
    \A p, q \in Procs :
        (/\ p # q /\ Done(p) /\ Done(q)
         /\ req[p].repo_name = req[q].repo_name
         /\ lastUp = p)
        => StoredIdsUnder(store, req[p].repo_name) = Ids(req[p].points)

(* C4: when the answer generator fails, a search with use_hyde does not    *)
(* raise and returns what the same search without use_hyde returns.        *)
C4_HydeFallback ==
    (last.op = "search" /\ last.use_hyde /\ last.env.gen.kind \in FailureKinds) =>
        /\ ~last.raised
        /\ last.result = search(store, last.query, last.repo_name, last.top_k,
                                last.doc_type, FALSE, last.env).result

C4_Witness ==
    /\ last.op = "search" /\ last.use_hyde /\ last.env.gen.kind = "exception"
    /\ Len(last.result) = 2
    /\ last.result #
          search(store, last.query, last.repo_name, last.top_k, last.doc_type, TRUE,
                 [last.env EXCEPT !.gen =
                     [kind |-> "ok",
                      answer |-> "Run npm install in the project root"]]).result

IsParent(r) == "is_parent" \in DOMAIN r

(* C5: in a search_with_context result, the appended parent's score is     *)
(* strictly below the score of every returned readme section.              *)
C5_ParentBelowSections ==
    IsContext =>
        \A i, j \in 1..Len(last.result) :
            (/\ IsParent(last.result[i])
             /\ ~IsParent(last.result[j])
             /\ last.result[j].type = "readme")
            => last.result[i].score < last.result[j].score

(* C6: delete_repo succeeds and leaves no document under the name; a       *)
(* second delete_repo of that name leaves the index as the first left it.  *)
C6_IdempotentDeletion ==
    last.op = "delete_repo" =>
        /\ last.ret = TRUE
        /\ StoredIdsUnder(store, last.repo_name) = {}
        /\ delete_repo(store, last.repo_name) = store

C6_Witness ==
    /\ last.op = "delete_repo" /\ last.removed = 2 /\ Len(store) = 1

StoredMatching(st, repo_name, doc_type) ==
    {i \in 1..Len(st) :
        /\ repo_name = "" \/ st[i].payload.repo_name = repo_name
        /\ doc_type = "" \/ st[i].payload.doc_type = doc_type}

(* C7: search returns exactly min(top_k, number of stored documents        *)
(* matching the filter) results; none for a repository without documents.  *)
C7_ResultCap ==
    IsSearch =>
        Len(last.result) =
            Min(last.top_k,
                Cardinality(StoredMatching(store, last.repo_name, last.doc_type)))

C7_Witness ==
    /\ IsSearch /\ last.top_k = 1 /\ last.repo_name = "A" /\ Len(last.result) = 1
    /\ Cardinality(StoredMatching(store, "A", last.doc_type)) = 2
    /\ Cardinality(StoredMatching(store, "B", "")) = 1

(* C8: search_with_context returns the list of search(..., use_hyde=True), *)
(* unchanged and in order, followed by at most one entry.                  *)
C8_ParentAdditive ==
    IsContext =>
        LET base == search(store, last.query, last.repo_name, last.top_k, "",
                           TRUE, last.env).result
        IN  /\ Len(last.result) \in {Len(base), Len(base) + 1}
            /\ Len(last.result) <= last.top_k + 1
            /\ SubSeq(last.result, 1, Len(base)) = base

C8_Witness ==
    /\ IsContext /\ last.top_k = 2 /\ Len(last.result) = 3
    /\ IsParent(last.result[3])

CompletePoint(pt) ==
    /\ Reserved \subseteq DOMAIN pt.payload
    /\ pt.vector \in 0..11

\* what a search for text can return for point id, if the point is whole
WholeResults(id, text) ==
    {HitToResult([point |-> BuildPoints(r, <<d>>, id)[1],
                  score |-> Cosine(embed_text(text), embed_text(d.content))]) :
        r \in Repos, d \in FetchedDocs}

(* C9: a search concurrent with index_documents sees each document of the  *)
(* batch either not at all or whole: payload (repo_name, content,          *)
(* doc_type, metadata) and vector.                                         *)
C9_AtomicVisibility ==
    /\ \A i \in 1..Len(store) : CompletePoint(store[i])
    /\ \A p \in Procs :
          pc[p] = "upsert" => Ids(req[p].points) \cap Ids(store) = {}
    /\ IsSearch =>
          \A i \in 1..Len(last.result) :
              last.result[i] \in WholeResults(last.hits[i], last.query)

C9_Witness ==
    /\ IsSearch /\ last.repo_name = "A" /\ Len(last.result) = 1
    /\ \E p \in Procs :
          /\ pc[p] = "upsert" /\ req[p].repo_name = "A"
          /\ Len(req[p].points) = 2
    /\ Len(store) = 1

IndexedMetadata(pt) == Get(pt.src.doc, "metadata", EmptyDict)

(* C10 as claimed: every result's metadata equals the metadata the         *)
(* document was indexed with.                                              *)
C10_MetadataEqualsIndexed ==
    IsSearch =>
        \A i \in 1..Len(last.result) :
            last.result[i].metadata = IndexedMetadata(PointOf(store, last.hits[i]))

(* C10, amended: every result's metadata holds exactly the stored payload  *)
(* keys other than content, doc_type and repo_name, with their values; a   *)
(* document indexed with metadata M comes back with M less these keys.     *)
C10_MetadataPassThrough ==
    IsSearch =>
        \A i \in 1..Len(last.result) :
            LET pt == PointOf(store, last.hits[i])
                md == last.result[i].metadata
                M == IndexedMetadata(pt)
            IN  /\ DOMAIN md = (DOMAIN pt.payload) \ Reserved
                /\ \A k \in DOMAIN md : md[k] = pt.payload[k]
                /\ DOMAIN md = (DOMAIN M) \ Reserved
                /\ \A k \in DOMAIN md : md[k] = M[k]

C10_Witness ==
    /\ IsSearch /\ Len(last.result) = 2
    /\ \E i, j \in 1..2 :
          /\ last.result[i].metadata = [section_title |-> "Setup"]
          /\ PointOf(store, last.hits[j]).src.doc = DocForeign

(* C11: index_documents with n documents returns n and adds exactly n      *)
(* points to the store, leaving the points already there as they were,     *)
(* also when a document's content is already stored; with no documents it  *)
(* returns 0 and leaves the store unchanged.                               *)
C11_ExactCount ==
    [][(last = NoCall /\ last'.op = "index_documents" /\ ~last'.raised) =>
          LET n == Len(last'.documents)
          IN  /\ last'.ret = n
              /\ Len(store') = Len(store) + n
              /\ SubSeq(store', 1, Len(store)) = store
              /\ n = 0 => store' = store]_vars

C11_Witness ==
    /\ last.op = "index_documents" /\ last.ret = 1 /\ Len(store) = 2
    /\ store[1].payload = store[2].payload
    /\ store[1].id # store[2].id

(* C12: get_indexed_repos returns exactly the set of repo_name values      *)
(* under which at least one document is stored, however many points the    *)
(* store holds.                                                            *)
C12_AllNamespaces ==
    (last.op = "get_indexed_repos" /\ ~last.raised) =>
        last.ret = {store[i].payload.repo_name : i \in 1..Len(store)}


(* C13: a search given both repo_name and doc_type returns only stored     *)
(* documents whose repo_name and doc_type both equal the given values, as  *)
(* many of them as top_k allows, and every result's type is the requested  *)
(* doc_type.                                                               *)
C13_FilterConjunction ==
    (IsSearch /\ last.repo_name # "" /\ last.doc_type # "") =>
        /\ \A i \in 1..Len(last.hits) :
              LET pt == PointOf(store, last.hits[i])
              IN  /\ pt.payload.repo_name = last.repo_name
                  /\ pt.payload.doc_type = last.doc_type
                  /\ last.result[i].type = last.doc_type
        /\ Cardinality({last.hits[i] : i \in 1..Len(last.hits)}) =
              Min(last.top_k,
                  Cardinality({i \in 1..Len(store) :
                                  /\ store[i].payload.repo_name = last.repo_name
                                  /\ store[i].payload.doc_type = last.doc_type}))

C13_Witness ==
    /\ IsSearch /\ last.repo_name = "A" /\ last.doc_type = "readme_full"
    /\ last.top_k = 2 /\ Len(last.result) = 1
    /\ \E i, j \in 1..Len(store) :
          /\ store[i].payload.repo_name = "A"
          /\ store[i].payload.doc_type # "readme_full"
          /\ store[j].payload.repo_name = "B"
          /\ store[j].payload.doc_type = "readme_full"


PosOf(st, id) == CHOOSE i \in 1..Len(st) : st[i].id = id

(* C14 as claimed: results come by descending score, and results of equal  *)
(* score in the order their documents were inserted.                       *)
C14_TiesInInsertionOrder ==
    IsSearch =>
        \A i, j \in 1..Len(last.result) :
            i < j =>
                \/ last.result[i].score > last.result[j].score
                \/ /\ last.result[i].score = last.result[j].score
                   /\ PosOf(store, last.hits[i]) < PosOf(store, last.hits[j])

(* C14, amended: results come by descending score, and no stored document  *)
(* passing the filter and left out scores above a returned one; among      *)
(* equal scores the order is the store's, which the engine does not fix.   *)
C14_DescendingScore ==
    IsSearch =>
        /\ \A i, j \in 1..Len(last.result) :
              i < j => last.result[i].score >= last.result[j].score
        /\ \A i \in 1..Len(last.result) :
              \A k \in StoredMatching(store, last.repo_name, last.doc_type) :
                  store[k].id \notin {last.hits[n] : n \in 1..Len(last.hits)}
                  => Cosine(embed_text(last.embedded[1]), store[k].vector)
                        <= last.result[i].score

C14_Witness ==
    /\ IsSearch /\ Len(last.result) = 2 /\ Len(store) = 3
    /\ last.result[1].score > last.result[2].score
    /\ PosOf(store, last.hits[1]) > PosOf(store, last.hits[2])


UsesEmbedder ==
    \/ last.op \in {"search", "search_with_context"}
    \/ last.op = "index_documents" /\ last.documents # <<>>

UsesStore ==
    \/ UsesEmbedder
    \/ last.op \in {"delete_repo", "get_indexed_repos"}

(* C15: when the embedder or the store is down, search,                    *)
(* search_with_context, index_documents, delete_repo and get_indexed_repos *)
(* call it once and raise; with both up no call raises, whatever the       *)
(* answer generator does.                                                  *)
C15_FailuresPropagate ==
    last # NoCall =>
        /\ (last.dep = "embedder" /\ UsesEmbedder) =>
              last.raised /\ last.calls.embed = 1 /\ last.calls.store = 0
        /\ (last.dep = "store" /\ UsesStore) =>
              last.raised /\ last.calls.store = 1 /\ last.calls.embed <= 1
        /\ last.dep = "none" => ~last.raised

C15_Witness ==
    /\ last.op = "search" /\ last.dep = "store" /\ last.raised
    /\ last.use_hyde /\ last.env.gen.kind = "ok"
    /\ last.calls = Calls(1, 1, 1)
    /\ Len(store) = 2


C17_Stamping ==
    \A i \in 1..Len(store) :
        LET pt == store[i]
        IN  /\ pt.payload.repo_name = pt.src.repo_name
            /\ pt.payload.content = pt.src.doc.content
            /\ pt.payload.doc_type = Get(pt.src.doc, "type", "unknown")

(* C18: every stored point's vector is the embedding of its stored         *)
(* content.                                                                *)
C18_VectorOfStoredContent ==
    \A i \in 1..Len(store) :
        store[i].vector = embed_text(store[i].payload.content)

(* C19: search_with_context appends an entry exactly when the first search *)
(* returned a result of type readme and the repository holds a readme_full *)
(* document; the entry is last, of type readme_full, of the same           *)
(* repository, flagged is_parent, and the only one flagged.                *)
C19_ParentFetchCondition ==
    IsContext =>
        LET base == search(store, last.query, last.repo_name, last.top_k, "",
                           TRUE, last.env).result
            n == Len(last.result)
            has_section == \E i \in 1..Len(base) : base[i].type = "readme"
            has_full == StoredMatching(store, last.repo_name, "readme_full") # {}
        IN  /\ n = Len(base) + 1 <=> (has_section /\ has_full)
            /\ n = Len(base) + 1 =>
                  /\ last.result[n].type = "readme_full"
                  /\ last.result[n].is_parent = TRUE
                  /\ PointOf(store, last.hits[n]).payload.repo_name = last.repo_name
            /\ \A i \in 1..n : IsParent(last.result[i]) => (i = n /\ n = Len(base) + 1)

C19_Witness ==
    /\ IsContext /\ last.repo_name = "A" /\ Len(last.result) = 2
    /\ IsParent(last.result[2]) /\ last.result[1].type = "readme"
    /\ StoredMatching(store, "B", "readme_full") # {}

(* C20: the answer generator is called only by a search with use_hyde and  *)
(* a query longer than 20 characters; any other search embeds exactly the  *)
(* raw query and makes no call to the generator.                           *)
C20_HydeGating ==
    last.op = "search" =>
        /\ last.calls.gen > 0 => (last.use_hyde /\ Len(last.query) > 20)
        /\ ~(last.use_hyde /\ Len(last.query) > 20) =>
              /\ last.calls.gen = 0
              /\ last.embedded = <<last.query>>

C20_Witness ==
    /\ last.op = "search" /\ last.use_hyde /\ Len(last.query) = 20
    /\ last.calls.gen = 0 /\ last.embedded = <<last.query>>
    /\ Len(last.result) = 1


(* C21: every search makes exactly one embedding call and one similarity   *)
(* query; when the generator produced a text, that text alone is embedded, *)
(* and the results are those of the store's ranking for it.                *)
C21_SingleSearchPath ==
    IsSearch =>
        /\ last.calls.embed = 1
        /\ last.calls.store = 1
        /\ Len(last.embedded) = 1
        /\ (last.use_hyde /\ Len(last.query) > 20 /\ last.env.gen.kind = "ok")
              => last.embedded = <<last.env.gen.answer>>
        /\ LET results == ClientSearch(store, embed_text(last.embedded[1]),
                                       FilterConditions(last.repo_name, last.doc_type),
                                       last.top_k, last.env.tie)
           IN  last.hits = [i \in 1..Len(results) |-> results[i].point.id]

C21_Witness ==
    /\ IsSearch /\ last.use_hyde /\ last.env.gen.kind = "ok"
    /\ last.embedded = <<"Run npm install in the project root">>
    /\ last.embedded[1] # last.query
    /\ last.calls = Calls(1, 1, 1)
    /\ Len(last.result) = 2


IsFiles == last.op = "search_for_files" /\ ~last.raised

C23_DeletionFrame ==
    [][(last = NoCall /\ last'.op = "delete_repo" /\ ~last'.raised) =>
          LET R == last'.repo_name
              Other(pt) == pt.payload.repo_name # R
          IN  /\ store' = SelectSeq(store, Other)
              /\ get_indexed_repos(store') = get_indexed_repos(store) \ {R}]_vars


(* C24: stored documents have distinct ids; index_documents gives each     *)
(* document of the batch an id of its own that was never handed out        *)
(* before (ids handed out so far are those below nextId), and leaves every *)
(* stored document in place.                                               *)
C24_FreshIds ==
    [][(last = NoCall /\ last'.op = "index_documents" /\ ~last'.raised) =>
          LET new == Ids(store') \ Ids(store)
          IN  /\ Cardinality(new) = Len(last'.documents)
              /\ \A id \in new : id >= nextId /\ id < nextId'
              /\ \A i \in 1..Len(store) : store'[i] = store[i]
              /\ Cardinality(Ids(store')) = Len(store')
              /\ \A id \in Ids(store) : id < nextId]_vars

C24_Witness ==
    /\ last.op = "index_documents" /\ last.ret = 1
    /\ Len(store) = 1 /\ store[1].id = 3


(* C25: can_contribute(u) is true when no contribution of u was logged;    *)
(* after log_contribution(u) at time t it is false at every time t' with   *)
(* t' - t <= 86400 and true at every later time, whatever was logged for   *)
(* other users.                                                            *)
C25_ContributionRateLimit ==
    last.op = "can_contribute" =>
        LET t == tracker.logged[last.user_id]
        IN  /\ t = -1 => last.ret = TRUE
            /\ (t # -1 /\ last.at - t <= 86400) => last.ret = FALSE
            /\ (t # -1 /\ last.at - t > 86400) => last.ret = TRUE

C25_Witness ==
    /\ last.op = "can_contribute" /\ last.ret = FALSE
    /\ last.at - tracker.logged[last.user_id] = 86400
    /\ \E v \in Users : v # last.user_id /\ tracker.logged[v] = last.at


(* C26: calculate_difficulty returns a score from 1 to 10, a time estimate *)
(* of the table, and the level Beginner exactly for scores up to 3,        *)
(* Intermediate exactly for 4 to 6, Advanced exactly from 7 on, whether    *)
(* the skill extraction fails or not.                                      *)
C26_DifficultyRange ==
    last.op = "calculate_difficulty" =>
        LET d == last.ret
        IN  /\ d.score \in 1..10
            /\ d.time_estimate # "Unknown"
            /\ d.time_estimate \in
                  {"30 mins", "1 hour", "2 hours", "3 hours", "4 hours", "6 hours",
                   "8 hours", "1-2 days", "2-3 days", "1 week+"}
            /\ d.level = "Beginner" <=> d.score <= 3
            /\ d.level = "Intermediate" <=> (4 <= d.score /\ d.score <= 6)
            /\ d.level = "Advanced" <=> d.score >= 7

C26_Witness ==
    /\ last.op = "calculate_difficulty" /\ last.gen.kind = "exception"
    /\ last.ret.score = 10 /\ Len(last.labels) = 3
    /\ last.title_len + last.body_len = 1001


ReadOps == {"search", "search_with_context", "search_for_files", "get_indexed_repos"}

(* C27: search, search_with_context, search_for_files and                  *)
(* get_indexed_repos leave the store as it was; a search returns no entry  *)
(* flagged is_parent and scores every entry by its stored vector.          *)
C27_ReadsLeaveIndex ==
    [][(last = NoCall /\ last'.op \in ReadOps) =>
          /\ store' = store
          /\ nextId' = nextId
          /\ last'.op = "search" =>
                \A i \in 1..Len(last'.result) :
                    /\ ~IsParent(last'.result[i])
                    /\ last'.result[i].score =
                          Cosine(embed_text(last'.embedded[1]),
                                 PointOf(store, last'.hits[i]).vector)]_vars

C27_Witness ==
    /\ IsContext /\ Len(last.result) = 3 /\ IsParent(last.result[3])
    /\ last.result[3].score = ParentScore
    /\ "is_parent" \notin DOMAIN PointOf(store, last.hits[3]).payload
    /\ Len(store) = 3


(* C28: the list returned by search_with_context holds each stored         *)
(* document at most once: the appended parent is not among the results of  *)
(* the first search.                                                       *)
C28_NoDuplicateInContext ==
    IsContext =>
        Cardinality({last.hits[i] : i \in 1..Len(last.hits)}) = Len(last.hits)



\* the ids the request's delete_repo took out of the index
RemovedBy(r) == IF "removed" \in DOMAIN r THEN r.removed ELSE {}

\* C29: whenever the index-repo endpoint has ended with an error response,
\* the documents stored for the repository before the request are still
\* stored (the request's own delete has taken none of them away)
C29_FailedReindexKeepsOld ==
    \A p \in Procs :
        ("endpoint" \in DOMAIN req[p] /\ req[p].endpoint = "index-repo"
            /\ pc[p] = "idle" /\ req[p].status \in {400, 500})
        => \A id \in RemovedBy(req[p]) : \E i \in 1..Len(store) : store[i].id = id


\* the components are set in construction order up to the first that raised
BuiltInOrder ==
    \A i, j \in 1..Len(Components) :
        (i < j /\ Has(app, Components[j])) => Has(app, Components[i])

\* an endpoint answers at this step with a component it needs missing
Gated(p) ==
    /\ pc[p] = "idle"
    /\ req'[p] # req[p]
    /\ "endpoint" \in DOMAIN req'[p]
    /\ Unavailable(app, Required(req'[p].endpoint))

\* C30: the components are initialised in the order GitHub engine, RAG
\* engine, fetcher, analyzer, a failure leaving that component and the later
\* ones uninitialised, so the analyzer is initialised only if the RAG engine
\* is; every endpoint whose required component is uninitialised answers 503
\* with nothing of any component in the response and the index unchanged
C30_ReadinessGating ==
    /\ [](BuiltInOrder /\ (Has(app, "analyzer") => Has(app, "rag_engine")))
    /\ [][\A p \in Procs :
             Gated(p) =>
                 /\ req'[p] = [status |-> 503, endpoint |-> req'[p].endpoint]
                 /\ UNCHANGED <<store, nextId, last, pc, lastUp, app, tracker>>]_vars

C30_Witness ==
    /\ app.phase = "serving" /\ app.built = 3
    /\ req["r1"] = [status |-> 503, endpoint |-> "analyze"]
    /\ Len(store) = 2

====
